---- MODULE Spec2Model ----
(***************************************************************************)
(* MyBlobFS: a read-only FUSE file system that shows the rows of one MySQL *)
(* table as files.  The model follows src/src/myblobfs.c (the revised      *)
(* driver); where the older src/myblobfs.c differs, the older behaviour is *)
(* kept as a separate "_old" operator.                                     *)
(*                                                                         *)
(* A C string is a sequence of one-character strings.  Multi-character     *)
(* elements ("SELECT ", "LENGTH(", ...) are the literal pieces of the      *)
(* query patterns; they never occur in a caller-supplied string.           *)
(***************************************************************************)
EXTENDS Integers, Sequences, FiniteSets, TLC

(***************************************************************************)
(* Bounds of the model.                                                    *)
(***************************************************************************)
\* longest path handed to a callback
MaxPathLen == 3
\* longest string handed to a validator in SpecV
MaxStrLen == 3
\* longest data-column value stored in the table
MaxLen == 2
\* width of int in bits (scaled down; size_t, unsigned long and off_t are
\* twice as wide, as on LP64)
IntBits == 6

(***************************************************************************)
(* Characters.                                                             *)
(***************************************************************************)
Digits == {"0", "1", "2", "3", "4", "5", "6", "7", "8", "9"}

Letters ==
    {"a", "b", "c", "d", "e", "f", "g", "h", "i", "j", "k", "l", "m",
     "n", "o", "p", "q", "r", "s", "t", "u", "v", "w", "x", "y", "z",
     "A", "B", "C", "D", "E", "F", "G", "H", "I", "J", "K", "L", "M",
     "N", "O", "P", "Q", "R", "S", "T", "U", "V", "W", "X", "Y", "Z"}

\* characters the validators are tried on
Chars == {"/", "0", "7", "a", "_", " ", ";"}

\* characters of the paths handed to the callbacks
PathChars == {"/", "1", "a"}

\* the null pointer, where a char* may be NULL
NULL == <<"(null)">>

RECURSIVE StringsOver(_, _)
StringsOver(alphabet, n) ==
    IF n = 0 THEN {<<>>}
    ELSE LET shorter == StringsOver(alphabet, n - 1)
         IN  shorter \cup {Append(s, c) : s \in shorter, c \in alphabet}

Range(s) == {s[i] : i \in 1..Len(s)}

(***************************************************************************)
(* libc                                                                    *)
(***************************************************************************)
strlen(str) == Len(str)

strcmp(a, b) == IF a = b THEN 0 ELSE 1

isdigit(c) == c \in Digits

isalnum(c) == c \in Digits \cup Letters

(***************************************************************************)
(* is_uint: 1 iff str consists of one or more decimal digits.              *)
(***************************************************************************)
RECURSIVE is_uint_loop(_, _)
is_uint_loop(str, i) ==
    IF ~(i < strlen(str)) THEN 1
    ELSE IF ~isdigit(str[i + 1]) THEN 0
    ELSE is_uint_loop(str, i + 1)

\* the older driver has no guard for the empty string
is_uint_old(str) == is_uint_loop(str, 0)

is_uint(str) ==
    IF strlen(str) = 0 THEN 0 ELSE is_uint_loop(str, 0)

(***************************************************************************)
(* is_valid_ident: 1 iff str can be used as an unquoted MySQL identifier.  *)
(***************************************************************************)
RECURSIVE is_valid_ident_loop(_, _)
is_valid_ident_loop(str, i) ==
    IF ~(i < strlen(str)) THEN 1
    ELSE IF ~isalnum(str[i + 1]) /\ (str[i + 1] # "_") THEN 0
    ELSE is_valid_ident_loop(str, i + 1)

RECURSIVE is_valid_ident_loop_old(_, _)
is_valid_ident_loop_old(str, i) ==
    IF ~(i < strlen(str)) THEN 1
    ELSE IF ~isalnum(str[i + 1]) \/ (str[i + 1] # "_") THEN 0
    ELSE is_valid_ident_loop_old(str, i + 1)

\* the older driver: no guard for the empty string, and || for &&
is_valid_ident_old(str) == is_valid_ident_loop_old(str, 0)

\* a validator that accepts every non-empty string
is_valid_ident_nonempty(str) == IF strlen(str) = 0 THEN 0 ELSE 1

is_valid_ident(str) ==
    IF strlen(str) = 0 THEN 0 ELSE is_valid_ident_loop(str, 0)

(***************************************************************************)
(* is_valid_path: 1 for "/" and for "/" followed by an unsigned integer.   *)
(* path[0] of the empty string is its terminating NUL.                     *)
(***************************************************************************)
CharAt0(path) == IF Len(path) = 0 THEN "NUL" ELSE path[1]

\* path + 1
Plus1(path) == SubSeq(path, 2, Len(path))

\* a resolver that forgets the digit check of the segment
is_valid_path_nodigits(path) ==
    IF strcmp(path, <<"/">>) = 0 THEN 1
    ELSE IF CharAt0(path) # "/" THEN 0
    ELSE 1

is_valid_path(path) ==
    IF strcmp(path, <<"/">>) = 0 THEN 1
    ELSE IF CharAt0(path) # "/" THEN 0
    ELSE IF is_uint(Plus1(path)) = 0 THEN 0
    ELSE 1

(***************************************************************************)
(* Integer types.  int has IntBits bits; size_t, unsigned long and off_t   *)
(* have WordBits bits.                                                     *)
(***************************************************************************)
WordBits == 2 * IntBits

IntMod == 2 ^ IntBits

WordMod == 2 ^ WordBits

SIZE_MAX == WordMod - 1

\* largest off_t
OFF_MAX == (WordMod \div 2) - 1

\* conversion to size_t / unsigned long
ToSize(x) == x % WordMod

\* a conversion to int that keeps the unsigned value
ToInt_unsigned(x) == x % WordMod

\* conversion to int (two's complement truncation)
ToInt(x) == ((x + (IntMod \div 2)) % IntMod) - (IntMod \div 2)

RECURSIVE BitAnd(_, _)
BitAnd(a, b) ==
    IF a = 0 \/ b = 0 THEN 0
    ELSE (a % 2) * (b % 2) + 2 * BitAnd(a \div 2, b \div 2)

(***************************************************************************)
(* <errno.h>, <fcntl.h>, <sys/stat.h>                                      *)
(***************************************************************************)
ENOENT == 2
EAGAIN == 11
ENOMEM == 12
EISDIR == 21
EROFS == 30

O_RDONLY == 0
O_WRONLY == 1
O_RDWR == 2

S_IFDIR == 16384
S_IFREG == 32768
\* the octal literal 0555
Perm0555 == 365

\* getuid(), getgid()
Uid == 1000
Gid == 100

(***************************************************************************)
(* Decimal text.                                                           *)
(***************************************************************************)
DigitChar(d) == CHOOSE c \in Digits :
    c = <<"0", "1", "2", "3", "4", "5", "6", "7", "8", "9">>[d + 1]

DigitVal(c) == CHOOSE d \in 0..9 : DigitChar(d) = c

RECURSIVE ToDecimal(_)
ToDecimal(n) ==
    IF n < 10 THEN <<DigitChar(n)>>
    ELSE Append(ToDecimal(n \div 10), DigitChar(n % 10))

\* value of the longest prefix of decimal digits, as strtol computes it
RECURSIVE DecPrefix(_, _, _)
DecPrefix(str, i, acc) ==
    IF i > Len(str) \/ ~isdigit(str[i]) THEN acc
    ELSE DecPrefix(str, i + 1, 10 * acc + DigitVal(str[i]))

\* the number the server reads a digit-only literal as
KeyValue(key) == DecPrefix(key, 1, 0)

\* atoi taken for the number of characters of the text
atoi_strlen(str) == Len(str)

\* atoi(str) for a non-null str: (int) strtol(str, NULL, 10)
atoi(str) == ToInt(DecPrefix(str, 1, 0))

(***************************************************************************)
(* The query patterns and sprintf.                                         *)
(***************************************************************************)
\* "SELECT %s FROM %s ORDER BY %s"
readdir_qp(a, b, c) ==
    <<"SELECT ">> \o a \o <<" FROM ">> \o b \o <<" ORDER BY ">> \o c

\* "SELECT %s FROM %s WHERE %s = %s"
read_qp(a, b, c, d) ==
    <<"SELECT ">> \o a \o <<" FROM ">> \o b \o <<" WHERE ">> \o c
        \o <<" = ">> \o d

\* "LENGTH(%s)"
size_fp(a) == <<"LENGTH(">> \o a \o <<")">>

(***************************************************************************)
(* The table behind the connection.  A row has an unsigned integer name    *)
(* and a data value that is a byte string or NULL.                         *)
(***************************************************************************)
Keys == {1, 11}

BlobBytes == <<"h", "e", "l", "o", "w", "r", "d", "x", "y", "z">>

\* the data of row k when it is n bytes long
Blob(k, n) == [i \in 1..n |-> BlobBytes[((k + i) % Len(BlobBytes)) + 1]]

AbsentRow == [kind |-> "absent", data |-> <<>>]

NullRow == [kind |-> "null", data |-> <<>>]

RowValues(k) ==
    {AbsentRow, NullRow} \cup {[kind |-> "blob", data |-> Blob(k, n)] : n \in 0..MaxLen}

Tables == {t \in [Keys -> UNION {RowValues(k) : k \in Keys}] :
              \A k \in Keys : t[k] \in RowValues(k)}

\* a column value of a result row: its bytes and whether it is SQL NULL
Value(bytes) == [isnull |-> FALSE, bytes |-> bytes]

NullValue == [isnull |-> TRUE, bytes |-> <<>>]

TokPos(text, tok) == CHOOSE i \in 1..Len(text) : text[i] = tok

RECURSIVE SortedKeys(_)
SortedKeys(S) ==
    IF S = {} THEN <<>>
    ELSE LET m == CHOOSE x \in S : \A y \in S : x <= y
         IN  <<m>> \o SortedKeys(S \ {m})

\* The rows the server returns for a query text: one column per row.
ExecQuery(t, text) ==
    LET sel == SubSeq(text, 2, TokPos(text, " FROM ") - 1)
    IN  IF " WHERE " \in Range(text)
        THEN LET key == SubSeq(text, TokPos(text, " = ") + 1, Len(text))
                 k   == KeyValue(key)
             IN  IF k \notin Keys \/ t[k].kind = "absent" THEN <<>>
                 ELSE IF sel[1] = "LENGTH("
                      THEN IF t[k].kind = "null" THEN <<NullValue>>
                           ELSE <<Value(ToDecimal(Len(t[k].data)))>>
                 ELSE IF sel = <<"1">> THEN <<Value(<<"1">>)>>
                 ELSE IF t[k].kind = "null" THEN <<NullValue>>
                 ELSE <<Value(t[k].data)>>
        ELSE LET ks == SortedKeys({k \in Keys : t[k].kind # "absent"})
             IN  [i \in 1..Len(ks) |-> Value(ToDecimal(ks[i]))]

(***************************************************************************)
(* State.                                                                  *)
(***************************************************************************)
VARIABLES
    pc,             \* where main is: "start", "serving" (inside fuse_main),
                    \* "exited", or "crashed"
    opts,           \* struct options as parsed from the command line
    my_table,       \* static char *my_table
    my_name_field,  \* static char *my_name_field
    my_data_field,  \* static char *my_data_field
    out,            \* lines written with puts
    db,             \* the table behind the connection
    call,           \* the last callback served: arguments, effects, result
    vcall,          \* the last validator call of SpecV: function, argument, result
    attr,           \* the last my_getattr call whose result went back to FUSE
    mysql,          \* static MYSQL mysql: the state of the one connection handle
    thr             \* the callbacks running on the threads of fuse_main

vars == <<pc, opts, my_table, my_name_field, my_data_field, out, db, call, vcall,
          attr, mysql, thr>>

\* a pointer whose block was freed
FREED == <<"(freed)">>

\* *stbuf before the callback writes to it
StUntouched ==
    [st_mode |-> -1, st_nlink |-> -1, st_size |-> -1, st_uid |-> -1, st_gid |-> -1]

\* memset(stbuf, 0, sizeof(struct stat))
StZero ==
    [st_mode |-> 0, st_nlink |-> 0, st_size |-> 0, st_uid |-> 0, st_gid |-> 0]

\* what a callback leaves behind when it does nothing but return
NoCall ==
    [op |-> "none", path |-> <<>>, flags |-> 0, size |-> 0, offset |-> 0,
     ret |-> 0,            \* the int returned
     st |-> StUntouched,   \* *stbuf
     entries |-> <<>>,     \* the filler calls, in order
     buf |-> <<>>,         \* the bytes memcpy took from the value
     copied |-> -1,        \* the length given to memcpy, -1 without memcpy
     over |-> 0,           \* how many bytes memcpy read past the value
     queries |-> <<>>,     \* the texts given to mysql_real_query
     res |-> "none",       \* mysql_use_result: "none", "null" or "set"
     trace |-> <<>>,       \* malloc, use, free and result-set events, in order
     crashed |-> FALSE]    \* the process died inside the callback

\* the handle between two commands: no result is pending.  owner is the
\* thread whose query produced the pending result (0: none).
Ready == [status |-> "READY", rows |-> <<>>, owner |-> 0]

\* the worker threads of the multithreaded fuse_main loop
Threads == {1, 2}

\* what mysql_use_result returns when it returns NULL
NoResult == [isnull |-> TRUE, rows |-> <<>>]

\* a thread that runs no callback.  stage is how far its callback is, res
\* what mysql_use_result returned to it, from the thread whose query made
\* that result (0: none), out the finished call.
Idle ==
    [stage |-> "idle", op |-> "none", path |-> <<>>, res |-> NoResult, from |-> 0,
     out |-> NoCall]

\* filler(buf, name, NULL, 0)
Filler(name) == [name |-> name, stbuf |-> NULL, off |-> 0]

\* mysql_real_query followed by mysql_use_result: NULL when the query could
\* not be executed, else the rows
UseResult(query, up) ==
    IF up THEN [isnull |-> FALSE, rows |-> ExecQuery(db, query)]
    ELSE [isnull |-> TRUE, rows |-> <<>>]

(***************************************************************************)
(* my_getattr.  mfail is the number of the malloc that returns NULL (0:    *)
(* none), up is whether the query yields a result handle, ub chooses the   *)
(* outcome of atoi(NULL).                                                  *)
(***************************************************************************)
\* the text my_getattr gives to mysql_real_query (lines 264-271)
getattr_query(path) ==
    read_qp(size_fp(my_data_field), my_table, my_name_field, Plus1(path))

\* my_getattr, given what mysql_use_result returns to it
my_getattr_res(path, mfail, res, ub) ==
    LET c0 == [NoCall EXCEPT !.op = "getattr", !.path = path]
    IN
    IF is_valid_path(path) = 0 THEN [c0 EXCEPT !.ret = -ENOENT]
    ELSE IF strcmp(path, <<"/">>) = 0
    THEN [c0 EXCEPT !.st = [st_mode |-> S_IFDIR + Perm0555, st_nlink |-> 2,
                            st_size |-> 0, st_uid |-> Uid, st_gid |-> Gid],
                    !.ret = 0]
    ELSE IF mfail = 1
    THEN [c0 EXCEPT !.st = StZero, !.ret = -ENOENT,
                    !.trace = <<"fail:filename">>]
    ELSE
    LET filename == Plus1(path)
    IN
    IF mfail = 2
    THEN [c0 EXCEPT !.st = StZero, !.ret = ENOENT,
                    !.trace = <<"malloc:filename", "use:filename", "fail:size", "free:filename">>]
    ELSE
    LET my_data_field_size == size_fp(my_data_field)
    IN
    IF mfail = 3
    THEN [c0 EXCEPT !.st = StZero, !.ret = -ENOENT,
                    !.trace = <<"malloc:filename", "use:filename", "malloc:size", "use:size", "fail:query",
                                "free:size", "free:filename">>]
    ELSE
    LET query == read_qp(my_data_field_size, my_table, my_name_field, filename)
        c1    == [c0 EXCEPT !.st = StZero, !.queries = <<query>>]
    IN
    IF res.isnull
    THEN [c1 EXCEPT !.ret = -ENOENT, !.res = "null",
                    !.trace = <<"malloc:filename", "use:filename", "malloc:size", "use:size", "malloc:query", "use:query",
                                "free:query", "free:size", "free:filename">>]
    ELSE
    LET c2 == [c1 EXCEPT !.res = "set",
                         !.trace = <<"malloc:filename", "use:filename", "malloc:size", "use:size",
                                     "malloc:query", "use:query", "use_result", "use:result", "free_result",
                                     "free:query", "free:size", "free:filename">>]
    IN
    IF Len(res.rows) = 0 THEN [c2 EXCEPT !.ret = -ENOENT]
    ELSE IF res.rows[1].isnull
    THEN \* atoi(NULL)
         IF ub = "crash"
         THEN [c2 EXCEPT !.crashed = TRUE,
                         !.st = [StZero EXCEPT !.st_mode = S_IFREG + Perm0555,
                                               !.st_nlink = 1],
                         !.trace = <<"malloc:filename", "use:filename", "malloc:size", "use:size",
                                     "malloc:query", "use:query", "use_result", "use:result">>]
         ELSE [c2 EXCEPT !.st = [st_mode |-> S_IFREG + Perm0555, st_nlink |-> 1,
                                 st_size |-> 0, st_uid |-> Uid, st_gid |-> Gid],
                         !.ret = 0]
    ELSE [c2 EXCEPT !.st = [st_mode |-> S_IFREG + Perm0555, st_nlink |-> 1,
                            st_size |-> atoi(res.rows[1].bytes),
                            st_uid |-> Uid, st_gid |-> Gid],
                    !.ret = 0]

my_getattr(path, mfail, up, ub) ==
    my_getattr_res(path, mfail, UseResult(getattr_query(path), up), ub)

(***************************************************************************)
(* my_readdir.                                                             *)
(***************************************************************************)
\* a listing that leaves out ".."
ReaddirDots_single == <<Filler(<<".">>)>>

\* the two filler calls of lines 359-360
ReaddirDots == <<Filler(<<".">>), Filler(<<".", ".">>)>>

\* the older driver returns without free(query)
ReaddirCleanup_old == <<"free_result">>

\* lines 382-391: mysql_free_result(res), then free(query)
ReaddirCleanup == <<"free_result", "free:query">>

\* the text my_readdir gives to mysql_real_query (line 371)
readdir_query == readdir_qp(my_name_field, my_table, my_name_field)

\* my_readdir, given what mysql_use_result returns to it
my_readdir_res(path, mfail, res) ==
    LET c0   == [NoCall EXCEPT !.op = "readdir", !.path = path]
        dots == ReaddirDots
    IN
    IF strcmp(path, <<"/">>) # 0 THEN [c0 EXCEPT !.ret = -ENOENT]
    ELSE IF mfail = 1
    THEN [c0 EXCEPT !.entries = dots, !.ret = -ENOMEM,
                    !.trace = <<"fail:query">>]
    ELSE
    LET query == readdir_query
        c1    == [c0 EXCEPT !.entries = dots, !.queries = <<query>>]
    IN
    IF res.isnull
    THEN [c1 EXCEPT !.ret = -ENOENT, !.res = "null",
                    !.trace = <<"malloc:query", "use:query", "free:query">>]
    ELSE [c1 EXCEPT !.entries =
                        dots \o [i \in 1..Len(res.rows) |-> Filler(res.rows[i].bytes)],
                    !.ret = 0, !.res = "set",
                    !.trace = <<"malloc:query", "use:query", "use_result", "use:result">>
                                  \o ReaddirCleanup]

my_readdir(path, mfail, up) ==
    my_readdir_res(path, mfail, UseResult(readdir_query, up))

(***************************************************************************)
(* my_open.  "fi->flags & O_RDONLY == 0" is fi->flags & (O_RDONLY == 0).   *)
(***************************************************************************)
WriteRequested(flags) ==
    BitAnd(flags, IF O_RDONLY = 0 THEN 1 ELSE 0) # 0

\* the text my_open gives to mysql_real_query (line 449)
open_query(path) == read_qp(<<"1">>, my_table, my_name_field, Plus1(path))

\* my_open, given what mysql_use_result returns to it
my_open_res(path, flags, mfail, res) ==
    LET c0 == [NoCall EXCEPT !.op = "open", !.path = path, !.flags = flags]
    IN
    IF is_valid_path(path) = 0 THEN [c0 EXCEPT !.ret = -ENOENT]
    ELSE IF WriteRequested(flags) THEN [c0 EXCEPT !.ret = -EROFS]
    ELSE IF strcmp(path, <<"/">>) = 0 THEN [c0 EXCEPT !.ret = 0]
    ELSE IF mfail = 1
    THEN [c0 EXCEPT !.ret = -ENOMEM, !.trace = <<"fail:filename">>]
    ELSE
    LET filename == Plus1(path)
    IN
    IF mfail = 2
    THEN [c0 EXCEPT !.ret = -ENOMEM,
                    !.trace = <<"malloc:filename", "use:filename", "fail:query", "free:filename">>]
    ELSE
    LET query == read_qp(<<"1">>, my_table, my_name_field, filename)
        c1    == [c0 EXCEPT !.queries = <<query>>]
    IN
    IF res.isnull
    THEN [c1 EXCEPT !.ret = -EAGAIN, !.res = "null",
                    !.trace = <<"malloc:filename", "use:filename", "malloc:query", "use:query", "free:query",
                                "free:filename">>]
    ELSE [c1 EXCEPT !.ret = IF Len(res.rows) = 0 THEN -ENOENT ELSE 0,
                    !.res = "set",
                    !.trace = <<"malloc:filename", "use:filename", "malloc:query", "use:query", "use_result", "use:result",
                                "free_result", "free:query", "free:filename">>]

my_open(path, flags, mfail, up) ==
    my_open_res(path, flags, mfail, UseResult(open_query(path), up))

(***************************************************************************)
(* my_read.  size is a size_t, offset an off_t, len an unsigned long; the  *)
(* function returns size as an int.  ub chooses the outcome of a memcpy    *)
(* that reads past the end of the value.                                   *)
(***************************************************************************)
Min(a, b) == IF a < b THEN a ELSE b

Max(a, b) == IF a > b THEN a ELSE b

\* the value of size after the clamp of lines 552-564
Window(size, offset, len) ==
    IF ToSize(offset) <= len
    THEN IF ToSize(ToSize(offset) + size) > len
         THEN ToSize(len - ToSize(offset))
         ELSE size
    ELSE 0

\* the text my_read gives to mysql_real_query (line 536)
read_query(path) == read_qp(my_data_field, my_table, my_name_field, Plus1(path))

\* my_read, given what mysql_use_result returns to it
my_read_res(path, size, offset, mfail, res, ub) ==
    LET c0 == [NoCall EXCEPT !.op = "read", !.path = path, !.size = size,
                             !.offset = offset]
    IN
    IF is_valid_path(path) = 0 THEN [c0 EXCEPT !.ret = -ENOENT]
    ELSE IF strcmp(path, <<"/">>) = 0 THEN [c0 EXCEPT !.ret = -EISDIR]
    ELSE IF mfail = 1
    THEN [c0 EXCEPT !.ret = ToInt(ToSize(-ENOMEM)), !.trace = <<"fail:filename">>]
    ELSE
    LET filename == Plus1(path)
    IN
    IF mfail = 2
    THEN [c0 EXCEPT !.ret = ToInt(ToSize(-ENOMEM)),
                    !.trace = <<"malloc:filename", "use:filename", "fail:query", "free:filename">>]
    ELSE
    LET query == read_qp(my_data_field, my_table, my_name_field, filename)
        c1    == [c0 EXCEPT !.queries = <<query>>]
    IN
    IF res.isnull
    THEN [c1 EXCEPT !.ret = ToInt(ToSize(-ENOMEM)), !.res = "null",
                    !.trace = <<"malloc:filename", "use:filename", "malloc:query", "use:query", "free:query",
                                "free:filename">>]
    ELSE
    LET c2 == [c1 EXCEPT !.res = "set",
                         !.trace = <<"malloc:filename", "use:filename", "malloc:query", "use:query",
                                     "use_result", "use:result", "free_result", "free:query",
                                     "free:filename">>]
    IN
    IF Len(res.rows) = 0 THEN [c2 EXCEPT !.ret = ToInt(ToSize(-ENOENT))]
    ELSE
    LET value == res.rows[1].bytes
        len   == Len(value)
        n     == Window(size, offset, len)
    IN
    IF ~(ToSize(offset) <= len) THEN [c2 EXCEPT !.ret = ToInt(n)]
    ELSE
    LET inside == Min(n, len - offset)
        c3     == [c2 EXCEPT !.copied = n,
                             !.over = n - inside,
                             !.buf = [i \in 1..inside |-> value[offset + i]]]
    IN
    IF n > inside /\ ub = "crash"
    THEN [c3 EXCEPT !.crashed = TRUE,
                    !.trace = <<"malloc:filename", "use:filename", "malloc:query", "use:query", "use_result", "use:result">>]
    ELSE [c3 EXCEPT !.ret = ToInt(n)]

my_read(path, size, offset, mfail, up, ub) ==
    my_read_res(path, size, offset, mfail, UseResult(read_query(path), up), ub)

(***************************************************************************)
(* main, up to the call of fuse_main.  The result is where main is after-  *)
(* wards, the three globals and the lines printed.  parse_ok: fuse_opt_-   *)
(* parse succeeded; rq_password: -p was given; getpass_ok: getpass         *)
(* returned a password; mfail: the malloc that fails (0: none);            *)
(* connect_ok: mysql_real_connect succeeded.                               *)
(***************************************************************************)
MainResult(p, t, n, d, o) ==
    [pc |-> p, my_table |-> t, my_name_field |-> n, my_data_field |-> d, out |-> o]

\* a main that checks the table name only
IdentErrors_tableonly(t, n, d) ==
    IF is_valid_ident(t) = 0
    THEN <<"Error: Illegal characters in table name identifier">>
    ELSE <<>>

\* lines 693-711: the messages of the three identifier checks; error is 1
\* iff there is one
IdentErrors(t, n, d) ==
    (IF is_valid_ident(t) = 0
     THEN <<"Error: Illegal characters in table name identifier">> ELSE <<>>)
    \o (IF is_valid_ident(n) = 0
        THEN <<"Error: Illegal characters in name field identifier">> ELSE <<>>)
    \o (IF is_valid_ident(d) = 0
        THEN <<"Error: Illegal characters in data field identifier">> ELSE <<>>)

main(o, parse_ok, rq_password, getpass_ok, mfail, connect_ok) ==
    IF ~parse_ok THEN MainResult("exited", NULL, NULL, NULL, <<>>)
    ELSE IF o.database = NULL
    THEN MainResult("exited", NULL, NULL, NULL, <<"Database name must be specified">>)
    ELSE IF o.table = NULL
    THEN MainResult("exited", NULL, NULL, NULL, <<"Table name must be specified">>)
    ELSE IF o.name_field = NULL
    THEN MainResult("exited", NULL, NULL, NULL, <<"Date field must be specified">>)
    ELSE IF o.data_field = NULL
    THEN MainResult("exited", NULL, NULL, NULL, <<"Name field must be specified">>)
    ELSE IF mfail = 1
    THEN MainResult("exited", NULL, NULL, NULL, <<"Out of memory">>)
    ELSE IF mfail = 2
    THEN MainResult("exited", FREED, NULL, NULL, <<"Out of memory">>)
    ELSE IF mfail = 3
    THEN MainResult("exited", FREED, FREED, NULL, <<"Out of memory">>)
    ELSE IF rq_password /\ ~getpass_ok
    THEN MainResult("exited", FREED, FREED, FREED, <<>>)
    ELSE IF ~connect_ok
    THEN MainResult("exited", FREED, FREED, FREED, <<"mysql_error">>)
    ELSE
    LET errors == IdentErrors(o.table, o.name_field, o.data_field)
    IN  IF errors # <<>>
        THEN MainResult("exited", FREED, FREED, FREED, errors)
        ELSE MainResult("serving", o.table, o.name_field, o.data_field, <<>>)

(***************************************************************************)
(* Inputs.                                                                 *)
(***************************************************************************)
\* the paths named by the specification's examples
ExamplePaths ==
    {<<>>, <<"/">>, <<"/", "a", "b", "c">>, <<"/", "1", "/", "2">>,
     <<"/", "/", "1">>, <<"1">>, <<"/", "1", "/">>, <<"/", "1">>, <<"/", "9">>}

Paths == StringsOver(PathChars, MaxPathLen) \cup ExamplePaths

Offsets == (0..(MaxLen + 1)) \cup {OFF_MAX}

Sizes == (0..(MaxLen + 1)) \cup {SIZE_MAX - 1, SIZE_MAX}

OpenFlags == {O_RDONLY, O_WRONLY, O_RDWR}

UBOutcomes == {"crash", "continue"}

OptionSets ==
    [database   : {NULL, <<"d", "b">>},
     table      : {NULL, <<>>, <<"t">>, <<"t", ";">>},
     name_field : {NULL, <<>>, <<"n">>, <<"n", " ">>},
     data_field : {NULL, <<>>, <<"d">>, <<";">>}]

NoVCall == [fn |-> "none", arg |-> <<>>, ret |-> 0]

(***************************************************************************)
(* The program: main, then the callbacks FUSE dispatches while fuse_main   *)
(* runs, then the rest of main.                                            *)
(***************************************************************************)
Init ==
    /\ pc = "start"
    /\ opts \in OptionSets
    /\ my_table = NULL
    /\ my_name_field = NULL
    /\ my_data_field = NULL
    /\ out = <<>>
    /\ db \in Tables
    /\ call = NoCall
    /\ vcall = NoVCall
    /\ attr = NoCall
    /\ mysql = Ready
    /\ thr = [t \in Threads |-> Idle]

Main ==
    /\ pc = "start"
    /\ \E parse_ok, rq_password, getpass_ok, connect_ok \in BOOLEAN, mfail \in 0..3 :
           LET r == main(opts, parse_ok, rq_password, getpass_ok, mfail, connect_ok)
           IN  /\ pc' = r.pc
               /\ my_table' = r.my_table
               /\ my_name_field' = r.my_name_field
               /\ my_data_field' = r.my_data_field
               /\ out' = r.out
    /\ UNCHANGED <<opts, db, call, vcall, attr, mysql, thr>>

\* a callback ran: the process goes on unless it died in it
Served(c) ==
    /\ call' = c
    /\ pc' = IF c.crashed THEN "crashed" ELSE pc
    /\ UNCHANGED <<opts, my_table, my_name_field, my_data_field, out, db, vcall,
                 attr, mysql, thr>>

GetAttr ==
    /\ pc = "serving"
    /\ call.op = "none"
    /\ \E path \in Paths, mfail \in 0..3, up \in BOOLEAN, ub \in UBOutcomes :
           Served(my_getattr(path, mfail, up, ub))

ReadDir ==
    /\ pc = "serving"
    /\ call.op = "none"
    /\ \E path \in Paths, mfail \in 0..1, up \in BOOLEAN :
           Served(my_readdir(path, mfail, up))

Open ==
    /\ pc = "serving"
    /\ call.op = "none"
    /\ \E path \in Paths, flags \in OpenFlags, mfail \in 0..2, up \in BOOLEAN :
           Served(my_open(path, flags, mfail, up))

Read ==
    /\ pc = "serving"
    /\ call.op = "none"
    /\ \E path \in Paths, size \in Sizes, offset \in Offsets, mfail \in 0..2,
          up \in BOOLEAN, ub \in UBOutcomes :
           Served(my_read(path, size, offset, mfail, up, ub))

\* the result of the callback has gone back to FUSE; the next request can
\* be dispatched
Reply ==
    /\ pc = "serving"
    /\ call.op # "none"
    /\ call' = NoCall
    /\ UNCHANGED <<pc, opts, my_table, my_name_field, my_data_field, out, db, vcall,
                 attr, mysql, thr>>

\* fuse_main returns (unmount): lines 720-751
FuseMainReturns ==
    /\ pc = "serving"
    /\ call.op = "none"
    /\ \E ret \in {0, 1} : out' = IF ret # 0 THEN Append(out, <<>>) ELSE out
    /\ pc' = "exited"
    /\ my_table' = FREED
    /\ my_name_field' = FREED
    /\ my_data_field' = FREED
    /\ UNCHANGED <<opts, db, call, vcall, attr, mysql, thr>>

Next == Main \/ GetAttr \/ ReadDir \/ Open \/ Read \/ Reply \/ FuseMainReturns

Spec == Init /\ [][Next]_vars

(***************************************************************************)
(* The validators on their own: a string is chosen, then each validator    *)
(* may be applied to it.                                                   *)
(***************************************************************************)
Strings == StringsOver(Chars, MaxStrLen)
               \cup {<<"1", "2", "a">>, <<"0", "0", "7">>, <<"d", "o", "c", "s">>,
                     <<"i", "d">>, <<"_">>,
                     <<"m", "y", "_", "t", "a", "b", "l", "e", "1">>}

InitV ==
    /\ pc = "validators"
    /\ opts = [database |-> NULL, table |-> NULL, name_field |-> NULL,
               data_field |-> NULL]
    /\ my_table = NULL
    /\ my_name_field = NULL
    /\ my_data_field = NULL
    /\ out = <<>>
    /\ db = [k \in Keys |-> AbsentRow]
    /\ call = NoCall
    /\ vcall \in {[NoVCall EXCEPT !.arg = s] : s \in Strings}
    /\ attr = NoCall
    /\ mysql = Ready
    /\ thr = [t \in Threads |-> Idle]

Validated(fn, ret) ==
    /\ pc = "validators"
    /\ vcall' = [fn |-> fn, arg |-> vcall.arg, ret |-> ret]
    /\ UNCHANGED <<pc, opts, my_table, my_name_field, my_data_field, out, db, call,
                 attr, mysql, thr>>

CallIsUint == Validated("is_uint", is_uint(vcall.arg))

CallIsValidIdent == Validated("is_valid_ident", is_valid_ident(vcall.arg))

CallIsValidPath == Validated("is_valid_path", is_valid_path(vcall.arg))

NextV == CallIsUint \/ CallIsValidIdent \/ CallIsValidPath

SpecV == InitV /\ [][NextV]_vars

(***************************************************************************)
(* Attribute lookups and reads of rows on a mounted table: FUSE keeps the   *)
(* attributes the last my_getattr gave it.                                 *)
(***************************************************************************)
MountOptions ==
    [database |-> <<"d", "b">>, table |-> <<"t">>, name_field |-> <<"n">>,
     data_field |-> <<"d">>]

InitMount ==
    /\ pc = "start"
    /\ opts = MountOptions
    /\ my_table = NULL
    /\ my_name_field = NULL
    /\ my_data_field = NULL
    /\ out = <<>>
    /\ db \in Tables
    /\ call = NoCall
    /\ vcall = NoVCall
    /\ attr = NoCall
    /\ mysql = Ready
    /\ thr = [t \in Threads |-> Idle]

\* the paths that name a row
RowPaths == {p \in Paths : is_valid_path(p) # 0 /\ strcmp(p, <<"/">>) # 0}

GetAttrRow ==
    /\ pc = "serving"
    /\ call.op = "none"
    /\ \E path \in RowPaths, mfail \in 0..3, up \in BOOLEAN, ub \in UBOutcomes :
           Served(my_getattr(path, mfail, up, ub))

ReadRow ==
    /\ pc = "serving"
    /\ call.op = "none"
    /\ \E path \in RowPaths, size \in Sizes, offset \in Offsets, mfail \in 0..2,
          up \in BOOLEAN, ub \in UBOutcomes :
           Served(my_read(path, size, offset, mfail, up, ub))

\* the result goes back to FUSE, which keeps the attributes of a my_getattr
ReplyAttr ==
    /\ pc = "serving"
    /\ call.op # "none"
    /\ attr' = IF call.op = "getattr" THEN call ELSE attr
    /\ call' = NoCall
    /\ UNCHANGED <<pc, opts, my_table, my_name_field, my_data_field, out, db, vcall,
                   mysql, thr>>

NextRT == Main \/ GetAttrRow \/ ReadRow \/ ReplyAttr

SpecRT == InitMount /\ [][NextRT]_vars

(***************************************************************************)
(* The callbacks on the threads of fuse_main.  main hands argv to fuse_main *)
(* as it came, so FUSE runs its multithreaded loop unless -s was given;    *)
(* the callbacks take no lock and all use the one handle mysql.  Each call *)
(* into the client library is one step.  The library keeps a status in the *)
(* handle: a command is refused (CR_COMMANDS_OUT_OF_SYNC) unless the       *)
(* status is READY, a query that yields rows leaves GET_RESULT,            *)
(* mysql_use_result takes the pending result and leaves USE_RESULT, and    *)
(* mysql_free_result reads what is left of the rows and leaves READY.      *)
(***************************************************************************)
\* the size every read of a thread asks for
ThreadReadSize == MaxLen + 1

\* the paths the threads ask for
ThreadPaths == {<<"/">>, <<"/", "1">>, <<"/", "1", "1">>}

\* the calls that reach mysql_real_query
IssuesQuery(op, path) ==
    IF op = "readdir" THEN strcmp(path, <<"/">>) = 0
    ELSE is_valid_path(path) # 0 /\ strcmp(path, <<"/">>) # 0

ThreadCalls ==
    {c \in [op : {"getattr", "readdir", "open", "read"}, path : ThreadPaths] :
        IssuesQuery(c.op, c.path)}

\* the text the call gives to mysql_real_query
QueryOf(op, path) ==
    CASE op = "getattr" -> getattr_query(path)
      [] op = "readdir" -> readdir_query
      [] op = "open"    -> open_query(path)
      [] op = "read"    -> read_query(path)

\* the callback from mysql_use_result on, given what that call returned
Finish(op, path, res, ub) ==
    CASE op = "getattr" -> my_getattr_res(path, 0, res, ub)
      [] op = "readdir" -> my_readdir_res(path, 0, res)
      [] op = "open"    -> my_open_res(path, O_RDONLY, 0, res)
      [] op = "read"    -> my_read_res(path, ThreadReadSize, 0, 0, res, ub)

\* the callback when no other callback runs
Alone(op, path, ub) ==
    CASE op = "getattr" -> my_getattr(path, 0, TRUE, ub)
      [] op = "readdir" -> my_readdir(path, 0, TRUE)
      [] op = "open"    -> my_open(path, O_RDONLY, 0, TRUE)
      [] op = "read"    -> my_read(path, ThreadReadSize, 0, 0, TRUE, ub)

\* mysql_real_query(&mysql, query, ...) on thread t: the handle afterwards
mysql_real_query(h, t, query) ==
    IF h.status = "READY"
    THEN [status |-> "GET_RESULT", rows |-> ExecQuery(db, query), owner |-> t]
    ELSE h

\* mysql_use_result(&mysql): the result returned and the handle afterwards
mysql_use_result(h) ==
    IF h.status = "GET_RESULT"
    THEN [res |-> [isnull |-> FALSE, rows |-> h.rows],
          h   |-> [h EXCEPT !.status = "USE_RESULT"]]
    ELSE [res |-> NoResult, h |-> h]

\* thread t enters a callback and runs it up to mysql_real_query, whose
\* return value the callback does not look at
ThreadQuery(t) ==
    /\ pc = "serving"
    /\ thr[t].stage = "idle"
    /\ \E c \in ThreadCalls :
           /\ thr' = [thr EXCEPT ![t] = [Idle EXCEPT !.stage = "queried",
                                                     !.op = c.op, !.path = c.path]]
           /\ mysql' = mysql_real_query(mysql, t, QueryOf(c.op, c.path))
    /\ UNCHANGED <<pc, opts, my_table, my_name_field, my_data_field, out, db, call,
                   vcall, attr>>

\* thread t calls mysql_use_result; with NULL the callback runs to its return
ThreadUseResult(t) ==
    /\ pc = "serving"
    /\ thr[t].stage = "queried"
    /\ LET r == mysql_use_result(mysql)
       IN  /\ mysql' = r.h
           /\ thr' = [thr EXCEPT ![t] =
                         IF r.res.isnull
                         THEN [@ EXCEPT !.stage = "done",
                                        !.out = Finish(thr[t].op, thr[t].path, r.res,
                                                       "continue")]
                         ELSE [@ EXCEPT !.stage = "using", !.res = r.res,
                                        !.from = mysql.owner]]
    /\ UNCHANGED <<pc, opts, my_table, my_name_field, my_data_field, out, db, call,
                   vcall, attr>>

\* thread t fetches the rows, calls mysql_free_result and runs to its return
ThreadFreeResult(t) ==
    /\ pc = "serving"
    /\ thr[t].stage = "using"
    /\ \E ub \in UBOutcomes :
           LET o == Finish(thr[t].op, thr[t].path, thr[t].res, ub)
           IN  /\ thr' = [thr EXCEPT ![t] = [@ EXCEPT !.stage = "done", !.out = o]]
               /\ pc' = IF o.crashed THEN "crashed" ELSE pc
               /\ mysql' = IF o.crashed THEN mysql ELSE Ready
    /\ UNCHANGED <<opts, my_table, my_name_field, my_data_field, out, db, call,
                   vcall, attr>>

\* the result of thread t's callback has gone back to FUSE
ThreadReturn(t) ==
    /\ pc = "serving"
    /\ thr[t].stage = "done"
    /\ thr' = [thr EXCEPT ![t] = Idle]
    /\ UNCHANGED <<pc, opts, my_table, my_name_field, my_data_field, out, db, call,
                   vcall, attr, mysql>>

NextC ==
    \/ Main
    \/ \E t \in Threads : ThreadQuery(t)
    \/ \E t \in Threads : ThreadUseResult(t)
    \/ \E t \in Threads : ThreadFreeResult(t)
    \/ \E t \in Threads : ThreadReturn(t)

SpecC == InitMount /\ [][NextC]_vars

(***************************************************************************)
(* Properties.                                                             *)
(***************************************************************************)
\* the shapes of a path, stated without the validators
IsRootPath(p) == p = <<"/">>

IsRowKeyPath(p) ==
    /\ Len(p) >= 2
    /\ p[1] = "/"
    /\ \A i \in 2..Len(p) : p[i] \in Digits

IsInvalidPath(p) == ~IsRootPath(p) /\ ~IsRowKeyPath(p)

\* the key slot of a query text
QueryKey(text) == SubSeq(text, TokPos(text, " = ") + 1, Len(text))

\* the row a row-key path names
RowOf(p) ==
    LET k == KeyValue(Plus1(p))
    IN  IF k \in Keys THEN db[k] ELSE AbsentRow

SafeIdentChars == Letters \cup Digits \cup {"_"}

SafeIdent(s) == s # NULL /\ s # <<>> /\ Range(s) \subseteq SafeIdentChars

\* C1: getattr, open and read treat a path as the root iff it is "/", as a
\* row key iff it is "/" followed by one or more digits (the key of the query
\* is then exactly those digits), and as invalid otherwise; for an invalid
\* path they return -ENOENT and neither allocate nor query.
C1_PathResolution ==
    call.op \in {"getattr", "open", "read"} =>
        /\ IsInvalidPath(call.path) =>
               /\ call.ret = -ENOENT
               /\ call.queries = <<>>
               /\ call.res = "none"
               /\ call.trace = <<>>
        /\ IsRootPath(call.path) =>
               /\ call.queries = <<>>
               /\ call.trace = <<>>
               /\ call.op = "getattr" => call.ret = 0 /\ call.st.st_nlink = 2
               /\ call.op = "read" => call.ret = -EISDIR
               /\ call.op = "open" => call.ret \in {0, -EROFS}
        /\ IsRowKeyPath(call.path) =>
               /\ call.trace # <<>> \/ (call.op = "open" /\ call.ret = -EROFS)
               /\ call.queries # <<>> =>
                      QueryKey(call.queries[1]) = Plus1(call.path)
        /\ call.queries # <<>> => IsRowKeyPath(call.path)

C1_Witness ==
    /\ call.op = "read"
    /\ call.path = <<"/", "1", "/", "2">>
    /\ call.ret = -ENOENT
    /\ call.queries = <<>>

\* C2: is_valid_ident returns 1 iff its argument is non-empty and made of
\* ASCII letters, decimal digits and underscores only; else it returns 0.
C2_ValidIdent ==
    vcall.fn = "is_valid_ident" =>
        vcall.ret = (IF vcall.arg # <<>> /\ Range(vcall.arg) \subseteq SafeIdentChars
                     THEN 1 ELSE 0)

C2_Witness ==
    /\ vcall.fn = "is_valid_ident"
    /\ vcall.arg = <<"m", "y", "_", "t", "a", "b", "l", "e", "1">>
    /\ vcall.ret = 1

\* C3: is_uint returns 1 iff its argument is non-empty and made of decimal
\* digits only; else it returns 0.
C3_Uint ==
    vcall.fn = "is_uint" =>
        vcall.ret = (IF vcall.arg # <<>> /\ Range(vcall.arg) \subseteq Digits
                     THEN 1 ELSE 0)

C3_Witness ==
    /\ vcall.fn = "is_uint"
    /\ vcall.arg = <<"0", "0", "7">>
    /\ vcall.ret = 1

\* C4: fuse_main is entered, and a callback is served, only when the table
\* name, the name field and the data field given on the command line are
\* each a safe identifier; the callbacks then work with exactly these names.
C4_ServeOnlyValidated ==
    (pc \in {"serving", "crashed"} \/ call.op # "none") =>
        /\ SafeIdent(opts.table)
        /\ SafeIdent(opts.name_field)
        /\ SafeIdent(opts.data_field)
        /\ pc # "exited" =>
               /\ my_table = opts.table
               /\ my_name_field = opts.name_field
               /\ my_data_field = opts.data_field

C4_Witness ==
    /\ pc = "exited"
    /\ opts.table = <<"t">>
    /\ opts.name_field = <<"n", " ">>
    /\ opts.data_field = <<"d">>
    /\ out = <<"Error: Illegal characters in name field identifier">>
    /\ call.op = "none"

\* a read that got as far as a result set holding the row of its path
ReadOfRow ==
    /\ call.op = "read"
    /\ IsRowKeyPath(call.path)
    /\ call.res = "set"
    /\ RowOf(call.path).kind = "blob"

\* the length of the window the clamp law asks for
ClampLaw(size, offset, L) ==
    IF offset <= L THEN Max(0, Min(size, L - offset)) ELSE 0

\* C5: a read of an existing row with content of length L returns
\* max(0, min(size, L - offset)) bytes when offset <= L and 0 bytes when
\* offset > L, for every size and offset; the bytes are those of the content
\* from offset on, the value returned is the number of bytes copied, and no
\* byte at an index >= L is read.
C5_ClampLaw ==
    ReadOfRow =>
        LET content == RowOf(call.path).data
            n       == ClampLaw(call.size, call.offset, Len(content))
        IN  /\ ~call.crashed
            /\ call.ret = n
            /\ call.over = 0
            /\ call.copied \in {-1, n}
            /\ call.buf = [i \in 1..n |-> content[call.offset + i]]

\* C6: open decides in this order: invalid path -> -ENOENT; write access
\* (O_WRONLY or O_RDWR) -> -EROFS, for the root and for rows, present or
\* not; root -> 0; row present -> 0; row absent -> -ENOENT.  (Stated for
\* calls in which no allocation and no query fails.)
C6_OpenOrder ==
    (call.op = "open" /\ call.res # "null" /\ "fail:filename" \notin Range(call.trace)
        /\ "fail:query" \notin Range(call.trace)) =>
        call.ret =
            IF IsInvalidPath(call.path) THEN -ENOENT
            ELSE IF call.flags \in {O_WRONLY, O_RDWR} THEN -EROFS
            ELSE IF IsRootPath(call.path) THEN 0
            ELSE IF RowOf(call.path).kind # "absent" THEN 0
            ELSE -ENOENT

\* C7: read returns -ENOENT for an invalid path, -EISDIR for "/", and
\* -ENOENT (a negative int) for a row-key path whose query ran and matched no
\* row; in all three cases nothing is copied to the caller's buffer.
C7_ReadErrors ==
    call.op = "read" =>
        /\ IsInvalidPath(call.path) =>
               call.ret = -ENOENT /\ call.copied = -1 /\ call.buf = <<>>
        /\ IsRootPath(call.path) =>
               call.ret = -EISDIR /\ call.copied = -1 /\ call.buf = <<>>
        /\ (IsRowKeyPath(call.path) /\ call.res = "set"
                /\ RowOf(call.path).kind = "absent") =>
               call.ret = -ENOENT /\ call.copied = -1 /\ call.buf = <<>>

C7_Witness ==
    /\ call.op = "read"
    /\ call.path = <<"/", "9">>
    /\ call.res = "set"
    /\ call.size = 1
    /\ call.ret = -ENOENT

\* C8: getattr returns, for "/", 0 with a directory of mode 0555 and link
\* count 2; for a row-key path whose row exists, 0 with a regular file of
\* link count 1, st_size the byte length of the data value and mode 0444; for
\* a row-key path with no row, -ENOENT.
C8_Attributes ==
    call.op = "getattr" =>
        /\ IsRootPath(call.path) =>
               /\ call.ret = 0
               /\ call.st.st_mode = S_IFDIR + Perm0555
               /\ call.st.st_nlink = 2
        /\ (IsRowKeyPath(call.path) /\ call.res = "set"
                /\ RowOf(call.path).kind = "blob") =>
               /\ call.ret = 0
               /\ call.st.st_mode = S_IFREG + (4 * 64 + 4 * 8 + 4)
               /\ call.st.st_nlink = 1
               /\ call.st.st_size = Len(RowOf(call.path).data)
        /\ (IsRowKeyPath(call.path) /\ call.res = "set"
                /\ RowOf(call.path).kind = "absent") =>
               call.ret = -ENOENT

\* the names a listing of table t must give, in ascending order of the key
RECURSIVE NamesAscending(_, _)
NamesAscending(t, k) ==
    IF \A j \in Keys : j < k THEN <<>>
    ELSE (IF k \in Keys /\ t[k].kind # "absent" THEN <<ToDecimal(k)>> ELSE <<>>)
             \o NamesAscending(t, k + 1)

\* C9: readdir returns -ENOENT and emits nothing for every path but "/"; for
\* "/", when the listing query gives a result set (and the query buffer was
\* allocated), it emits ".", "..", then the name of every row in the order of
\* the result set, each without a stat buffer, and returns 0, also for an
\* empty table.
C9_Listing ==
    call.op = "readdir" =>
        /\ ~IsRootPath(call.path) =>
               call.ret = -ENOENT /\ call.entries = <<>> /\ call.queries = <<>>
        /\ (IsRootPath(call.path) /\ call.res = "set") =>
               LET names == <<<<".">>, <<".", ".">>>> \o NamesAscending(db, 0)
               IN  /\ call.ret = 0
                   /\ Len(call.entries) = Len(names)
                   /\ \A i \in 1..Len(names) :
                          /\ call.entries[i].name = names[i]
                          /\ call.entries[i].stbuf = NULL

C9_Witness ==
    /\ call.op = "readdir"
    /\ call.path = <<"/">>
    /\ call.ret = 0
    /\ \A k \in Keys : db[k].kind # "absent"
    /\ Len(call.entries) = 2 + Cardinality(Keys)

\* C10: when the size query of getattr matches a row whose length value is
\* NULL (a NULL data column), getattr returns -ENOENT: it does not crash and
\* does not report success.
C10_MalformedLength ==
    (call.op = "getattr" /\ IsRowKeyPath(call.path) /\ call.res = "set"
        /\ RowOf(call.path).kind = "null") =>
        ~call.crashed /\ call.ret = -ENOENT

\* some malloc of the call returned NULL
AllocFailed(c) == \E i \in 1..Len(c.trace) :
    c.trace[i] \in {"fail:filename", "fail:size", "fail:query"}

\* C11: in getattr, readdir, open and read, a malloc that returns NULL (file
\* name, size expression or query buffer) makes the call return -ENOMEM.
C11_AllocFailure ==
    (call.op # "none" /\ AllocFailed(call)) => call.ret = -ENOMEM

\* C12: when mysql_use_result gives no result handle, the call returns an
\* error that is neither the -ENOENT of a missing row nor the -ENOMEM of a
\* failed allocation, and never success.
C12_SourceUnavailable ==
    (call.op # "none" /\ call.res = "null") =>
        /\ call.ret < 0
        /\ call.ret # -ENOENT
        /\ call.ret # -ENOMEM

\* the three query shapes, written out for names t, n, d and key k
SizeQueryText(t, n, d, k) ==
    <<"SELECT ", "LENGTH(">> \o d \o <<")", " FROM ">> \o t \o <<" WHERE ">>
        \o n \o <<" = ">> \o k

ContentQueryText(t, n, d, k) ==
    <<"SELECT ">> \o d \o <<" FROM ">> \o t \o <<" WHERE ">> \o n \o <<" = ">> \o k

ExistsQueryText(t, n, k) ==
    <<"SELECT ", "1", " FROM ">> \o t \o <<" WHERE ">> \o n \o <<" = ">> \o k

ListingQueryText(t, n) ==
    <<"SELECT ">> \o n \o <<" FROM ">> \o t \o <<" ORDER BY ">> \o n

\* the literal pieces of the query patterns
PatternPieces ==
    {"SELECT ", " FROM ", " WHERE ", " = ", " ORDER BY ", "LENGTH(", ")"}

\* C14: every query text a callback hands to mysql_real_query is the size,
\* content, existence or listing query for the configured names; these names
\* are safe identifiers, the key is the non-empty digit string after the "/"
\* of the path, and apart from the pattern's own pieces the text holds only
\* letters, digits and underscores.
C14_QueryShapes ==
    \A i \in 1..Len(call.queries) :
        LET q == call.queries[i]
            t == opts.table
            n == opts.name_field
            d == opts.data_field
            k == Plus1(call.path)
        IN  /\ SafeIdent(t) /\ SafeIdent(n) /\ SafeIdent(d)
            /\ \/ /\ call.op = "readdir"
                  /\ q = ListingQueryText(t, n)
               \/ /\ k # <<>>
                  /\ Range(k) \subseteq Digits
                  /\ \/ call.op = "getattr" /\ q = SizeQueryText(t, n, d, k)
                     \/ call.op = "open" /\ q = ExistsQueryText(t, n, k)
                     \/ call.op = "read" /\ q = ContentQueryText(t, n, d, k)
            /\ Range(q) \subseteq PatternPieces \cup SafeIdentChars

C14_Witness ==
    /\ call.op = "getattr"
    /\ call.path = <<"/", "1", "1">>
    /\ call.queries =
           <<SizeQueryText(<<"t">>, <<"n">>, <<"d">>, <<"1", "1">>)>>

\* where event e stands in trace tr
Positions(tr, e) == {i \in 1..Len(tr) : tr[i] = e}

\* the resource obtained by event m is released by event f exactly once,
\* after it was obtained, and every use u of it lies in between
ReleasedOnce(tr, m, u, f) ==
    /\ Cardinality(Positions(tr, m)) <= 1
    /\ Cardinality(Positions(tr, f)) = Cardinality(Positions(tr, m))
    /\ \A i \in Positions(tr, m), j \in Positions(tr, f) : i < j
    /\ \A k \in Positions(tr, u) :
           \E i \in Positions(tr, m), j \in Positions(tr, f) : i < k /\ k < j

\* C16: when getattr, readdir, open or read returns, on whatever path, each
\* buffer it allocated and the result set it obtained has been released
\* exactly once, after its last use; a buffer whose malloc failed is neither
\* used nor freed.
C16_Cleanup ==
    (call.op # "none" /\ ~call.crashed) =>
        /\ ReleasedOnce(call.trace, "malloc:filename", "use:filename", "free:filename")
        /\ ReleasedOnce(call.trace, "malloc:size", "use:size", "free:size")
        /\ ReleasedOnce(call.trace, "malloc:query", "use:query", "free:query")
        /\ ReleasedOnce(call.trace, "use_result", "use:result", "free_result")
        /\ Cardinality(Positions(call.trace, "use_result")) =
               (IF call.res = "set" THEN 1 ELSE 0)
        /\ call.queries # <<>> => Positions(call.trace, "malloc:query") # {}

C16_Witness ==
    /\ call.op = "readdir"
    /\ call.path = <<"/">>
    /\ call.res = "set"
    /\ call.ret = 0
    /\ call.trace = <<"malloc:query", "use:query", "use_result", "use:result",
                      "free_result", "free:query">>

\* the call ran to its return with every malloc and the query succeeding
RanClean(c) == ~AllocFailed(c) /\ c.res = "set" /\ ~c.crashed

\* C13: with the table unchanged, a my_read of row k at offset 0 with a size
\* of at least the length of the row's content copies exactly that content
\* and returns its length, which is the st_size the last my_getattr of the
\* same path reported; and two my_getattr calls of the same path that both run
\* clean return the same result and the same attributes.
C13_RoundTrip ==
    /\ (ReadOfRow /\ call.offset = 0 /\ ~call.crashed
           /\ call.size >= Len(RowOf(call.path).data)) =>
           /\ call.buf = RowOf(call.path).data
           /\ call.ret = Len(RowOf(call.path).data)
           /\ (attr.path = call.path /\ RanClean(attr)) =>
                  /\ attr.ret = 0
                  /\ attr.st.st_size = call.ret
    /\ (call.op = "getattr" /\ attr.path = call.path
           /\ RanClean(call) /\ RanClean(attr)) =>
           /\ call.ret = attr.ret
           /\ call.st = attr.st

C13_Witness ==
    /\ ReadOfRow
    /\ call.offset = 0
    /\ call.size > Len(RowOf(call.path).data)
    /\ call.buf = RowOf(call.path).data
    /\ Len(call.buf) = MaxLen
    /\ attr.op = "getattr"
    /\ attr.path = call.path
    /\ attr.st.st_size = MaxLen

\* C15: whatever the interleaving of the callbacks of the threads, a
\* callback that has finished returns what it returns when it runs alone,
\* and the result it read was the result of its own query.
C15_Isolation ==
    \A t \in Threads :
        thr[t].stage = "done" =>
            /\ thr[t].out \in {Alone(thr[t].op, thr[t].path, ub) : ub \in UBOutcomes}
            /\ thr[t].from = t

====
